---- MODULE Spec2Model ----
(***************************************************************************)
(* Model of the unstake liquidity pool (src/src/liq_pool.rs) and of its    *)
(* numeric core (src/src/calc.rs).                                         *)
(*                                                                         *)
(* Scale.  The program works on u64 amounts with a u128 intermediate and   *)
(* the fixed-point constant UNIT = 10^9.  The model keeps the structure    *)
(* and shrinks the width: a machine word ranges over 0..WordMax, the wide  *)
(* intermediate is exact (a product of two words always fits in the double *)
(* width, as in the code), and UNIT is a small number of the same role     *)
(* (fees are fractions of UNIT, and a fee above UNIT is more than 100%).   *)
(*                                                                         *)
(* Arithmetic.  `+`, `-`, `+=`, `-=` on u64 panic on overflow when the     *)
(* crate is built with overflow checks (the default dev profile) and wrap  *)
(* modulo 2^64 otherwise (the default release profile).  The build is the  *)
(* variable overflow_checks, chosen in Init and never changed.  A division *)
(* by zero and panic!() abort whatever the build.                          *)
(***************************************************************************)
EXTENDS Integers, Sequences, FiniteSets, TLC

\* ---- bounds -------------------------------------------------------------
WordMax == 5            \* the largest machine word (u64::MAX, scaled)
MaxFee == 4             \* the largest fee parameter handed to new()
MaxLiqTarget == 2       \* the largest liq_target handed to new()

\* ---- program constants --------------------------------------------------
UNIT == 3               \* calc.rs:5, `pub const UNIT: u64 = 1000000000`, scaled

Modulus == WordMax + 1
Word == 0..WordMax

VARIABLES
    pool,             \* the LiqPool struct: max_fee, min_fee, liq_target,
                      \*   token, st_token, lp_token_supply
    overflow_checks,  \* TRUE: arithmetic overflow panics; FALSE: it wraps
    call,             \* the last call: [op, args]
    result,           \* what the last call produced (see Res)
    pre,              \* the pool as it was when the last call started
    add_called,       \* some add_liquidity call has been performed
    in_range          \* no arithmetic step of any call so far has wrapped

vars == <<pool, overflow_checks, call, result, pre, add_called, in_range>>

\* ---- results ------------------------------------------------------------
\* kind:    "Ok", "CalculationError", "InvalidInputData",
\*          "InsufficientLiquidity" (error.rs) or "Panic" (the call aborted)
\* why:     for a panic, its cause: "overflow", "div_by_zero", "explicit"
\* wrapped: some arithmetic step of the call wrapped around
\* a, b:    the returned value(s)
Res(kind, why, wrapped, a, b) ==
    [kind |-> kind, why |-> why, wrapped |-> wrapped, a |-> a, b |-> b]

Ok(wrapped, a) == Res("Ok", "", wrapped, a, 0)
Ok2(wrapped, a, b) == Res("Ok", "", wrapped, a, b)
Err(kind, wrapped) == Res(kind, "", wrapped, 0, 0)
Panic(why, wrapped) == Res("Panic", why, wrapped, 0, 0)

\* ---- u64 arithmetic -----------------------------------------------------
\* a + b on u64: the sum when it fits, otherwise a panic or the wrapped sum.
AddU64(a, b) ==
    IF a + b <= WordMax THEN Ok(FALSE, a + b)
    ELSE IF overflow_checks THEN Panic("overflow", FALSE)
    ELSE Ok(TRUE, (a + b) % Modulus)

\* a - b on u64: the difference when it fits, otherwise a panic or the
\* wrapped difference.
SubU64(a, b) ==
    IF a >= b THEN Ok(FALSE, a - b)
    ELSE IF overflow_checks THEN Panic("overflow", FALSE)
    ELSE Ok(TRUE, (a - b) % Modulus)

\* ---- calc.rs ------------------------------------------------------------
\* propotion with the product taken in the width of its operands.
propotion_narrow_product(amount, nominator, denominator) ==
    IF denominator = 0 THEN Panic("div_by_zero", FALSE)
    ELSE Ok(FALSE, ((amount * nominator) % Modulus) \div denominator)

\* amount * nominator / denominator through the wide intermediate; the
\* division aborts on a zero denominator, the narrowing back fails with
\* CalculationError.
propotion(amount, nominator, denominator) ==
    IF denominator = 0 THEN Panic("div_by_zero", FALSE)
    ELSE LET q == (amount * nominator) \div denominator
         IN  IF q <= WordMax THEN Ok(FALSE, q)
             ELSE Err("CalculationError", FALSE)

value(amount, price) == propotion(amount, price, UNIT)

\* shares with the arguments of the proportion in the wrong places.
shares_mixed_arguments(val, total_value, total_shares) ==
    IF total_shares = 0 THEN Ok(FALSE, val)
    ELSE propotion(total_shares, total_value, val)

shares(val, total_value, total_shares) ==
    IF total_shares = 0 THEN Ok(FALSE, val)
    ELSE propotion(val, total_shares, total_value)

apply_fee(amount, fee) ==
    LET v == value(amount, fee)
    IN  IF v.kind # "Ok" THEN v
        ELSE SubU64(amount, v.a)

\* ---- liq_pool.rs --------------------------------------------------------
LiqPool(max_fee, min_fee, liq_target, token, st_token, lp_token_supply) ==
    [max_fee |-> max_fee, min_fee |-> min_fee, liq_target |-> liq_target,
     token |-> token, st_token |-> st_token,
     lp_token_supply |-> lp_token_supply]

\* What a call leaves behind: the pool and the call's result.
Outcome(self, res) == [self |-> self, res |-> res]

\* new() with the supply field initialised from the wrong parameter.
new_supply_from_target(max_fee, min_fee, liq_target) ==
    IF max_fee < min_fee
    THEN Outcome(LiqPool(0, 0, 0, 0, 0, 0), Panic("explicit", FALSE))
    ELSE Outcome(LiqPool(max_fee, min_fee, liq_target, 0, 0, liq_target),
                 Ok(FALSE, 0))

\* LiqPool::new.  A fee range with max_fee < min_fee is a panic!(): no pool
\* is produced (the pool of the outcome is a placeholder nothing reads).
new(max_fee, min_fee, liq_target) ==
    IF max_fee < min_fee
    THEN Outcome(LiqPool(0, 0, 0, 0, 0, 0), Panic("explicit", FALSE))
    ELSE Outcome(LiqPool(max_fee, min_fee, liq_target, 0, 0, 0),
                 Ok(FALSE, 0))

\* linear_fee evaluated at the liquidity before the swap.
linear_fee_pre_swap(self, st_token_amount) ==
    IF st_token_amount > self.token THEN Ok(FALSE, self.max_fee)
    ELSE IF self.token >= self.liq_target THEN Ok(FALSE, self.min_fee)
    ELSE
    LET p == propotion(self.max_fee - self.min_fee, self.token,
                       self.liq_target) IN
    IF p.kind # "Ok" THEN p
    ELSE Ok(FALSE, self.max_fee - p.a)

\* linear_fee with the interpolation running the wrong way: from min_fee
\* at no liquidity up to max_fee at the target.
linear_fee_rising(self, st_token_amount) ==
    IF st_token_amount > self.token THEN Ok(FALSE, self.max_fee)
    ELSE IF self.token - st_token_amount >= self.liq_target
    THEN Ok(FALSE, self.min_fee)
    ELSE
    LET p == propotion(self.max_fee - self.min_fee,
                       self.token - st_token_amount, self.liq_target) IN
    IF p.kind # "Ok" THEN p
    ELSE Ok(FALSE, self.min_fee + p.a)

\* LiqPool::linear_fee (&self: reads the pool, returns the fee).
linear_fee(self, st_token_amount) ==
    IF st_token_amount > self.token THEN Ok(FALSE, self.max_fee)
    ELSE
    LET liq_after == SubU64(self.token, st_token_amount) IN
    IF liq_after.kind # "Ok" THEN liq_after
    ELSE IF liq_after.a >= self.liq_target THEN Ok(liq_after.wrapped, self.min_fee)
    ELSE
    LET span == SubU64(self.max_fee, self.min_fee) IN
    IF span.kind # "Ok" THEN span
    ELSE
    LET p == propotion(span.a, liq_after.a, self.liq_target) IN
    IF p.kind # "Ok" THEN p
    ELSE
    LET fee == SubU64(self.max_fee, p.a) IN
    IF fee.kind # "Ok" THEN fee
    ELSE Ok(span.wrapped \/ fee.wrapped, fee.a)

\* add_liquidity valuing the pool by its token balance alone.
add_liquidity_ignores_st_token(self, token_amount) ==
    LET total_liq_pool_value == Ok(FALSE, self.token) IN
    IF total_liq_pool_value.kind # "Ok"
    THEN Outcome(self, total_liq_pool_value)
    ELSE
    LET lp_token_to_mint ==
            shares(token_amount, total_liq_pool_value.a, self.lp_token_supply) IN
    IF lp_token_to_mint.kind # "Ok"
    THEN Outcome(self, [lp_token_to_mint EXCEPT
                            !.wrapped = total_liq_pool_value.wrapped])
    ELSE
    LET token == AddU64(self.token, token_amount)
        w1 == total_liq_pool_value.wrapped
    IN
    IF token.kind # "Ok"
    THEN Outcome(self, [token EXCEPT !.wrapped = w1])
    ELSE
    LET self1 == [self EXCEPT !.token = token.a]
        w2 == w1 \/ token.wrapped
        lp_token_supply == AddU64(self.lp_token_supply, lp_token_to_mint.a)
    IN
    IF lp_token_supply.kind # "Ok"
    THEN Outcome(self1, [lp_token_supply EXCEPT !.wrapped = w2])
    ELSE Outcome([self1 EXCEPT !.lp_token_supply = lp_token_supply.a],
                 Ok(w2 \/ lp_token_supply.wrapped, lp_token_to_mint.a))

\* LiqPool::add_liquidity, statement by statement (lines 37..41).
add_liquidity(self, token_amount) ==
    LET total_liq_pool_value == AddU64(self.st_token, self.token) IN
    IF total_liq_pool_value.kind # "Ok"
    THEN Outcome(self, total_liq_pool_value)
    ELSE
    LET lp_token_to_mint ==
            shares(token_amount, total_liq_pool_value.a, self.lp_token_supply) IN
    IF lp_token_to_mint.kind # "Ok"
    THEN Outcome(self, [lp_token_to_mint EXCEPT
                            !.wrapped = total_liq_pool_value.wrapped])
    ELSE
    LET token == AddU64(self.token, token_amount)
        w1 == total_liq_pool_value.wrapped
    IN
    IF token.kind # "Ok"
    THEN Outcome(self, [token EXCEPT !.wrapped = w1])
    ELSE
    LET self1 == [self EXCEPT !.token = token.a]
        w2 == w1 \/ token.wrapped
        lp_token_supply == AddU64(self.lp_token_supply, lp_token_to_mint.a)
    IN
    IF lp_token_supply.kind # "Ok"
    THEN Outcome(self1, [lp_token_supply EXCEPT !.wrapped = w2])
    ELSE Outcome([self1 EXCEPT !.lp_token_supply = lp_token_supply.a],
                 Ok(w2 \/ lp_token_supply.wrapped, lp_token_to_mint.a))

\* remove_liquidity past its guard (lines 55..60).
remove_liquidity_checked(self, lp_token_amount) ==
    LET token_amount ==
            propotion(lp_token_amount, self.token, self.lp_token_supply) IN
    IF token_amount.kind # "Ok" THEN Outcome(self, token_amount)
    ELSE
    LET st_token_amount ==
            propotion(lp_token_amount, self.st_token, self.lp_token_supply) IN
    IF st_token_amount.kind # "Ok" THEN Outcome(self, st_token_amount)
    ELSE
    LET lp_token_supply == SubU64(self.lp_token_supply, lp_token_amount) IN
    IF lp_token_supply.kind # "Ok" THEN Outcome(self, lp_token_supply)
    ELSE
    LET self1 == [self EXCEPT !.lp_token_supply = lp_token_supply.a]
        w1 == lp_token_supply.wrapped
        token == SubU64(self.token, token_amount.a)
    IN
    IF token.kind # "Ok" THEN Outcome(self1, [token EXCEPT !.wrapped = w1])
    ELSE
    LET self2 == [self1 EXCEPT !.token = token.a]
        w2 == w1 \/ token.wrapped
        st_token == SubU64(self.st_token, st_token_amount.a)
    IN
    IF st_token.kind # "Ok" THEN Outcome(self2, [st_token EXCEPT !.wrapped = w2])
    ELSE Outcome([self2 EXCEPT !.st_token = st_token.a],
                 Ok2(w2 \/ st_token.wrapped, token_amount.a, st_token_amount.a))

\* remove_liquidity with the guard comparing against the token balance
\* instead of the outstanding supply.
remove_liquidity_guard_on_token(self, lp_token_amount) ==
    IF lp_token_amount > self.token
    THEN Outcome(self, Err("InvalidInputData", FALSE))
    ELSE remove_liquidity_checked(self, lp_token_amount)

\* LiqPool::remove_liquidity (lines 48..60).
remove_liquidity(self, lp_token_amount) ==
    IF lp_token_amount > self.lp_token_supply
    THEN Outcome(self, Err("InvalidInputData", FALSE))
    ELSE remove_liquidity_checked(self, lp_token_amount)

\* swap that keeps the fee it charged in the max_fee field.
swap_stores_fee(self, st_token_amount) ==
    LET fee == linear_fee(self, st_token_amount) IN
    IF fee.kind # "Ok" THEN Outcome(self, fee)
    ELSE
    LET out_token_amount == apply_fee(st_token_amount, fee.a)
        w0 == fee.wrapped
    IN
    IF out_token_amount.kind # "Ok"
    THEN Outcome(self, [out_token_amount EXCEPT !.wrapped = w0])
    ELSE
    LET w1 == w0 \/ out_token_amount.wrapped IN
    IF out_token_amount.a > self.token
    THEN Outcome(self, Err("InsufficientLiquidity", w1))
    ELSE
    LET token == SubU64(self.token, out_token_amount.a) IN
    IF token.kind # "Ok" THEN Outcome(self, [token EXCEPT !.wrapped = w1])
    ELSE
    LET self1 == [self EXCEPT !.token = token.a]
        w2 == w1 \/ token.wrapped
        st_token == AddU64(self.st_token, st_token_amount)
    IN
    IF st_token.kind # "Ok" THEN Outcome(self1, [st_token EXCEPT !.wrapped = w2])
    ELSE Outcome([self1 EXCEPT !.st_token = st_token.a, !.max_fee = fee.a],
                 Ok(w2 \/ st_token.wrapped, out_token_amount.a))

\* LiqPool::swap (lines 69..77).
swap(self, st_token_amount) ==
    LET fee == linear_fee(self, st_token_amount) IN
    IF fee.kind # "Ok" THEN Outcome(self, fee)
    ELSE
    LET out_token_amount == apply_fee(st_token_amount, fee.a)
        w0 == fee.wrapped
    IN
    IF out_token_amount.kind # "Ok"
    THEN Outcome(self, [out_token_amount EXCEPT !.wrapped = w0])
    ELSE
    LET w1 == w0 \/ out_token_amount.wrapped IN
    IF out_token_amount.a > self.token
    THEN Outcome(self, Err("InsufficientLiquidity", w1))
    ELSE
    LET token == SubU64(self.token, out_token_amount.a) IN
    IF token.kind # "Ok" THEN Outcome(self, [token EXCEPT !.wrapped = w1])
    ELSE
    LET self1 == [self EXCEPT !.token = token.a]
        w2 == w1 \/ token.wrapped
        st_token == AddU64(self.st_token, st_token_amount)
    IN
    IF st_token.kind # "Ok" THEN Outcome(self1, [st_token EXCEPT !.wrapped = w2])
    ELSE Outcome([self1 EXCEPT !.st_token = st_token.a],
                 Ok(w2 \/ st_token.wrapped, out_token_amount.a))

\* ---- the state machine --------------------------------------------------
Call(op, args) == [op |-> op, args |-> args]

\* The state after construction: new() called with any parameters, under
\* either build.
Init ==
    \E mx \in 0..MaxFee, mn \in 0..MaxFee, lt \in 0..MaxLiqTarget,
       oc \in BOOLEAN :
        /\ overflow_checks = oc
        /\ call = Call("new", <<mx, mn, lt>>)
        /\ pool = new(mx, mn, lt).self
        /\ result = new(mx, mn, lt).res
        /\ pre = new(mx, mn, lt).self
        /\ add_called = FALSE
        /\ in_range = TRUE

\* A panic aborts the process: nothing is called afterwards.
Alive == result.kind # "Panic"

Apply(op, arg, outcome) ==
    /\ Alive
    /\ call' = Call(op, <<arg>>)
    /\ pre' = pool
    /\ pool' = outcome.self
    /\ result' = outcome.res
    /\ in_range' = (in_range /\ ~outcome.res.wrapped)
    /\ UNCHANGED overflow_checks

AddLiquidity ==
    \E token_amount \in Word :
        /\ Apply("add_liquidity", token_amount, add_liquidity(pool, token_amount))
        /\ add_called' = TRUE

RemoveLiquidity ==
    \E lp_token_amount \in Word :
        /\ Apply("remove_liquidity", lp_token_amount,
                 remove_liquidity(pool, lp_token_amount))
        /\ UNCHANGED add_called

Swap ==
    \E st_token_amount \in Word :
        /\ Apply("swap", st_token_amount, swap(pool, st_token_amount))
        /\ UNCHANGED add_called

Next == AddLiquidity \/ RemoveLiquidity \/ Swap

Spec == Init /\ [][Next]_vars

TypeOK ==
    /\ pool.token \in Word /\ pool.st_token \in Word
    /\ pool.lp_token_supply \in Word
    /\ pool.max_fee \in Word /\ pool.min_fee \in Word /\ pool.liq_target \in Word
    /\ overflow_checks \in BOOLEAN
    /\ add_called \in BOOLEAN
    /\ in_range \in BOOLEAN

\* ---- what the claims read ------------------------------------------------
Arg == call.args[1]

Balances(p) == <<p.token, p.st_token, p.lp_token_supply>>

Reported == {"CalculationError", "InvalidInputData", "InsufficientLiquidity"}

PoolOps == {"add_liquidity", "remove_liquidity", "swap"}

\* C1: whenever add_liquidity, remove_liquidity or swap does not complete
\* successfully, token, st_token and lp_token_supply are exactly what they
\* were before the call.
C1_AtomicOnFailure ==
    (call.op \in PoolOps /\ result.kind # "Ok")
        => Balances(pool) = Balances(pre)

\* C2: no operation divides by zero, in any state reachable from a newly
\* constructed pool and for any argument.
C2_NoDivisionByZero == result.why # "div_by_zero"

\* C3: each of add_liquidity, remove_liquidity and swap returns a success
\* value or one of the three reported errors; it never aborts and never
\* stores a wrapped value.
C3_Total ==
    call.op \in PoolOps
        => /\ result.kind \in {"Ok"} \cup Reported
           /\ ~result.wrapped

\* C4: new(max_fee, min_fee, liq_target) with max_fee < min_fee returns an
\* explicit construction error and does not abort; with max_fee >= min_fee
\* it yields a pool holding the three parameters and zero balances.
C4_Construction ==
    call.op = "new"
        => IF call.args[1] < call.args[2]
           THEN result.kind = "ConstructionError"
           ELSE /\ result.kind = "Ok"
                /\ pool = LiqPool(call.args[1], call.args[2], call.args[3],
                                  0, 0, 0)

\* C5 as stated: lp_token_supply = 0 if and only if no add_liquidity call
\* has ever been performed.
C5_FirstMintIff == (pool.lp_token_supply = 0) <=> ~add_called

\* C5 as amended: as long as no add_liquidity call has been performed,
\* lp_token_supply is 0 (the converse fails: the supply is 0 again after
\* add_liquidity(0) and after the whole supply has been removed).
C5_NoDepositNoSupply == ~add_called => pool.lp_token_supply = 0

\* C5 witness: other operations have acted on a pool that never saw a
\* deposit (a swap at a 100% fee pays nothing out and succeeds).
C5_Witness ==
    /\ ~add_called
    /\ call.op = "swap" /\ result.kind = "Ok"
    /\ pool.st_token > 0

\* C6: a successful add_liquidity(token_amount) returns token_amount when
\* lp_token_supply was 0, and floor(token_amount * lp_token_supply /
\* (token + st_token)) otherwise; token has grown by exactly token_amount,
\* lp_token_supply by exactly the returned amount, st_token is unchanged.
C6_AddLiquidityEffect ==
    (call.op = "add_liquidity" /\ result.kind = "Ok")
        => /\ result.a =
                IF pre.lp_token_supply = 0 THEN Arg
                ELSE (Arg * pre.lp_token_supply)
                        \div (pre.token + pre.st_token)
           /\ pool.token = pre.token + Arg
           /\ pool.lp_token_supply = pre.lp_token_supply + result.a
           /\ pool.st_token = pre.st_token

\* C7: remove_liquidity(lp_amount) with lp_amount <= lp_token_supply returns
\* (floor(lp_amount * token / lp_token_supply), floor(lp_amount * st_token /
\* lp_token_supply)) and decrements lp_token_supply, token and st_token by
\* lp_amount and those two amounts; neither amount exceeds its balance, and
\* removing the whole supply returns both balances and leaves all three at 0.
C7_RemoveLiquidityEffect ==
    (call.op = "remove_liquidity" /\ Arg <= pre.lp_token_supply)
        => /\ result.kind = "Ok"
           /\ result.a = (Arg * pre.token) \div pre.lp_token_supply
           /\ result.b = (Arg * pre.st_token) \div pre.lp_token_supply
           /\ pool.lp_token_supply = pre.lp_token_supply - Arg
           /\ pool.token = pre.token - result.a
           /\ pool.st_token = pre.st_token - result.b
           /\ result.a <= pre.token /\ result.b <= pre.st_token
           /\ Arg = pre.lp_token_supply
                => /\ result.a = pre.token /\ result.b = pre.st_token
                   /\ Balances(pool) = <<0, 0, 0>>

\* C8: remove_liquidity(lp_amount) with lp_amount > lp_token_supply fails
\* with InvalidInputData and leaves token, st_token and lp_token_supply
\* unchanged.
C8_RemoveTooMuch ==
    (call.op = "remove_liquidity" /\ Arg > pre.lp_token_supply)
        => /\ result.kind = "InvalidInputData"
           /\ Balances(pool) = Balances(pre)

\* C8 witness: more than the outstanding supply was asked of a pool that
\* holds liquidity, and the call was rejected.
C8_Witness ==
    /\ call.op = "remove_liquidity"
    /\ pre.lp_token_supply > 0 /\ Arg > pre.lp_token_supply
    /\ result.kind = "InvalidInputData"

\* The payout of swap(st_token_amount) on pool p, where the fee and its
\* application are computed without fault.
PayoutDefined(p, st_token_amount) ==
    /\ linear_fee(p, st_token_amount).kind = "Ok"
    /\ ~linear_fee(p, st_token_amount).wrapped
    /\ apply_fee(st_token_amount, linear_fee(p, st_token_amount).a).kind = "Ok"
    /\ ~apply_fee(st_token_amount, linear_fee(p, st_token_amount).a).wrapped

Payout(p, st_token_amount) ==
    apply_fee(st_token_amount, linear_fee(p, st_token_amount).a).a

\* C9: swap fails with InsufficientLiquidity exactly when the post-fee
\* payout is greater than token, and then the balances are unchanged;
\* whenever the payout is <= token the swap succeeds.
C9_SwapLiquidityCheck ==
    (call.op = "swap" /\ PayoutDefined(pre, Arg))
        => /\ (result.kind = "InsufficientLiquidity")
                <=> (Payout(pre, Arg) > pre.token)
           /\ Payout(pre, Arg) > pre.token => Balances(pool) = Balances(pre)
           /\ Payout(pre, Arg) <= pre.token => result.kind = "Ok"

\* C10: a successful swap(st_token_amount) returns st_token_amount -
\* floor(st_token_amount * fee / UNIT) with fee = linear_fee(st_token_amount)
\* on the pre-swap state; token has decreased by exactly that amount,
\* st_token has increased by exactly st_token_amount, lp_token_supply is
\* unchanged.
C10_SwapEffect ==
    (call.op = "swap" /\ result.kind = "Ok")
        => /\ result.a = Arg - ((Arg * linear_fee(pre, Arg).a) \div UNIT)
           /\ pool.token = pre.token - result.a
           /\ pool.st_token = pre.st_token + Arg
           /\ pool.lp_token_supply = pre.lp_token_supply

\* C11: on a pool in the state new() leaves it in, add_liquidity(x) followed
\* immediately by remove_liquidity of all the shares just minted returns
\* (x, 0) and leaves token = st_token = lp_token_supply = 0.
C11_RoundTrip ==
    [][(/\ call.op = "add_liquidity" /\ result.kind = "Ok"
        /\ Balances(pre) = <<0, 0, 0>>
        /\ call'.op = "remove_liquidity" /\ call'.args[1] = result.a)
            => /\ result'.kind = "Ok"
               /\ result'.a = Arg /\ result'.b = 0
               /\ Balances(pool') = <<0, 0, 0>>]_vars

\* C12: no add_liquidity, remove_liquidity or swap call, successful or
\* failed, changes max_fee, min_fee or liq_target, so max_fee >= min_fee
\* holds in every state of a constructed pool.
C12_FeeParametersFrozen ==
    call.op \in PoolOps
        => /\ pool.max_fee = pre.max_fee
           /\ pool.min_fee = pre.min_fee
           /\ pool.liq_target = pre.liq_target
           /\ pool.max_fee >= pool.min_fee

\* C12 witness: a swap has moved the balances of a pool whose fee range is
\* not a single point.
C12_Witness ==
    /\ call.op = "swap" /\ result.kind = "Ok"
    /\ Balances(pool) # Balances(pre)
    /\ pool.max_fee > pool.min_fee /\ pool.liq_target > 0

\* ---- linear_fee called on its own ---------------------------------------
\* linear_fee is private to the pool; the tests of liq_pool.rs call it
\* directly (&self: the pool is left as it is).
LinearFee ==
    \E st_token_amount \in Word :
        /\ Apply("linear_fee", st_token_amount,
                 Outcome(pool, linear_fee(pool, st_token_amount)))
        /\ UNCHANGED add_called

FeeNext == Next \/ LinearFee

FeeSpec == Init /\ [][FeeNext]_vars

\* C13: linear_fee(st_token_amount) returns max_fee when st_token_amount >
\* token; otherwise, with liq_after = token - st_token_amount, min_fee when
\* liq_after >= liq_target and max_fee - floor((max_fee - min_fee) *
\* liq_after / liq_target) when liq_after < liq_target; the pool is not
\* modified.
C13_LinearFeeValue ==
    call.op = "linear_fee"
        => /\ result.kind = "Ok"
           /\ result.a =
                IF Arg > pre.token THEN pre.max_fee
                ELSE IF pre.token - Arg >= pre.liq_target THEN pre.min_fee
                ELSE pre.max_fee
                        - (((pre.max_fee - pre.min_fee) * (pre.token - Arg))
                              \div pre.liq_target)
           /\ pool = pre

\* C13 witness: the fee was interpolated strictly between min_fee and
\* max_fee.
C13_Witness ==
    /\ call.op = "linear_fee" /\ result.kind = "Ok"
    /\ Arg <= pre.token /\ pre.token - Arg < pre.liq_target
    /\ pre.min_fee < result.a /\ result.a < pre.max_fee

\* C14: linear_fee succeeds with a result in [min_fee, max_fee]; for a fixed
\* pool the result does not increase as the post-swap liquidity token -
\* st_token_amount increases; it is max_fee at post-swap liquidity 0 (when
\* liq_target > 0) and min_fee at or above liq_target.
C14_LinearFeeRange ==
    call.op = "linear_fee"
        => /\ result.kind = "Ok" /\ ~result.wrapped
           /\ pre.min_fee <= result.a /\ result.a <= pre.max_fee
           /\ \A other \in Word :
                (Arg <= other /\ other <= pre.token)
                    => /\ linear_fee(pre, other).kind = "Ok"
                       /\ linear_fee(pre, other).a >= result.a
           /\ (Arg = pre.token /\ pre.liq_target > 0)
                => result.a = pre.max_fee
           /\ (Arg <= pre.token /\ pre.token - Arg >= pre.liq_target)
                => result.a = pre.min_fee

\* C14 witness: below the target, with a fee range that is not a single
\* point, a swap leaving less liquidity is charged strictly more.
C14_Witness ==
    /\ call.op = "linear_fee" /\ result.kind = "Ok"
    /\ Arg < pre.token /\ pre.token - Arg < pre.liq_target
    /\ linear_fee(pre, pre.token).a > result.a

\* ---- the numeric core called on its own --------------------------------
\* calc.rs holds pure functions: a call reads its arguments and nothing
\* else, and the pool plays no part.  The state before the first call:
NoCall ==
    \E oc \in BOOLEAN :
        /\ overflow_checks = oc
        /\ call = Call("none", <<0>>)
        /\ result = Ok(FALSE, 0)
        /\ pool = LiqPool(0, 0, 0, 0, 0, 0)
        /\ pre = LiqPool(0, 0, 0, 0, 0, 0)
        /\ add_called = FALSE
        /\ in_range = TRUE

Eval(fn, args, res) ==
    /\ Alive
    /\ call' = Call(fn, args)
    /\ result' = res
    /\ in_range' = (in_range /\ ~res.wrapped)
    /\ UNCHANGED <<pool, pre, overflow_checks, add_called>>

Propotion ==
    \E amount \in Word, nominator \in Word, denominator \in Word :
        Eval("propotion", <<amount, nominator, denominator>>,
             propotion(amount, nominator, denominator))

Value ==
    \E amount \in Word, price \in Word :
        Eval("value", <<amount, price>>, value(amount, price))

Shares ==
    \E val \in Word, total_value \in Word, total_shares \in Word :
        Eval("shares", <<val, total_value, total_shares>>,
             shares(val, total_value, total_shares))

ApplyFee ==
    \E amount \in Word, fee \in Word :
        Eval("apply_fee", <<amount, fee>>, apply_fee(amount, fee))

CalcNext == Propotion \/ Value \/ Shares \/ ApplyFee

CalcSpec == NoCall /\ [][CalcNext]_vars

\* C15: apply_fee(amount, fee) returns amount - floor(amount * fee / UNIT);
\* when that subtraction would underflow it fails with CalculationError
\* rather than aborting or wrapping; for every fee in [0, UNIT] it does not
\* underflow and the result is between 0 and amount.
C15_ApplyFee ==
    call.op = "apply_fee"
        => LET amount == call.args[1]
               fee == call.args[2]
               fee_value == (amount * fee) \div UNIT
           IN  /\ fee_value > amount => result.kind = "CalculationError"
               /\ fee_value <= amount
                    => /\ result.kind = "Ok" /\ ~result.wrapped
                       /\ result.a = amount - fee_value
               /\ fee <= UNIT
                    => /\ result.kind = "Ok"
                       /\ 0 <= result.a /\ result.a <= amount

\* C16: propotion(amount, nominator, denominator) with denominator > 0
\* returns exactly floor(amount * nominator / denominator) whenever that
\* quotient fits in a word, and fails with CalculationError exactly when it
\* does not.
C16_Propotion ==
    (call.op = "propotion" /\ call.args[3] > 0)
        => LET quotient == (call.args[1] * call.args[2]) \div call.args[3]
           IN  /\ quotient <= WordMax
                    => /\ result.kind = "Ok" /\ ~result.wrapped
                       /\ result.a = quotient
               /\ quotient > WordMax => result.kind = "CalculationError"
               /\ result.kind \in {"Ok", "CalculationError"}

\* C16 witness: the product did not fit in a word, the quotient did, and
\* the call returned it.
C16_Witness ==
    /\ call.op = "propotion" /\ call.args[3] > 0
    /\ call.args[1] * call.args[2] > WordMax
    /\ result.kind = "Ok" /\ result.a > 0

\* C17: shares(v, total_value, total_shares) does not decrease as v grows,
\* for fixed total_value > 0 and total_shares > 0 and whenever both calls
\* succeed; and shares(v, 0, 0) = v.
C17_SharesMonotone ==
    call.op = "shares"
        => LET v == call.args[1]
               total_value == call.args[2]
               total_shares == call.args[3]
           IN  /\ (total_value > 0 /\ total_shares > 0 /\ result.kind = "Ok")
                    => \A smaller \in 0..v :
                         shares(smaller, total_value, total_shares).kind = "Ok"
                            => shares(smaller, total_value, total_shares).a
                                  <= result.a
               /\ (total_value = 0 /\ total_shares = 0)
                    => (result.kind = "Ok" /\ result.a = v)

\* C17 witness: a deposit into a pool with value and shares was given more
\* shares than a smaller deposit would have been.
C17_Witness ==
    /\ call.op = "shares" /\ result.kind = "Ok"
    /\ call.args[2] > 0 /\ call.args[3] > 0 /\ call.args[1] > 1
    /\ shares(call.args[1] - 1, call.args[2], call.args[3]).kind = "Ok"
    /\ shares(call.args[1] - 1, call.args[2], call.args[3]).a < result.a

\* ---- the value behind the shares ---------------------------------------
\* token + st_token, the pool value add_liquidity divides by (as a number,
\* not as a word).
TotalValue(p) == p.token + p.st_token

\* C18: every successful add_liquidity, remove_liquidity or swap on a pool
\* with max_fee <= UNIT takes total value T and supply S to T' and S' with
\* T' * S >= T * S'; a successful swap never decreases token + st_token, and
\* a deposit into a pool that has collected fees mints no more shares than
\* the amount deposited.
C18_SharePriceNeverFalls ==
    (call.op \in PoolOps /\ result.kind = "Ok" /\ pool.max_fee <= UNIT)
        => /\ TotalValue(pool) * pre.lp_token_supply
                >= TotalValue(pre) * pool.lp_token_supply
           /\ call.op = "swap" => TotalValue(pool) >= TotalValue(pre)
           /\ (/\ call.op = "add_liquidity"
               /\ pre.lp_token_supply > 0
               /\ TotalValue(pre) > pre.lp_token_supply)
                => result.a <= Arg

\* A run that stays within the word range: nothing has wrapped, and the
\* last call did not abort on an overflow.
WithinRange ==
    /\ in_range
    /\ ~(result.kind = "Panic" /\ result.why = "overflow")

\* C19: in every state reached within the word range by a pool with
\* max_fee <= UNIT, token + st_token >= lp_token_supply; hence the divisor
\* of add_liquidity is > 0 whenever lp_token_supply > 0, and add_liquidity
\* does not return CalculationError (nor divide by zero).
C19_Backing ==
    (WithinRange /\ pool.max_fee <= UNIT)
        => /\ TotalValue(pool) >= pool.lp_token_supply
           /\ pool.lp_token_supply > 0 => TotalValue(pool) > 0
           /\ call.op = "add_liquidity"
                => /\ result.kind # "CalculationError"
                   /\ result.why # "div_by_zero"

\* C19 witness: a deposit into a pool that holds more value than shares
\* was given fewer shares than the amount deposited.
C19_Witness ==
    /\ WithinRange /\ pool.max_fee <= UNIT
    /\ call.op = "add_liquidity" /\ result.kind = "Ok"
    /\ pre.lp_token_supply > 0
    /\ TotalValue(pre) > pre.lp_token_supply
    /\ result.a < Arg

\* C20: on a pool with min_fee <= max_fee <= UNIT, a successful
\* add_liquidity(v) followed immediately by a successful remove_liquidity
\* of exactly the shares just minted returns amounts whose sum is at most v.
C20_NoProfitRoundTrip ==
    [][(/\ pool.max_fee <= UNIT
        /\ call.op = "add_liquidity" /\ result.kind = "Ok"
        /\ call'.op = "remove_liquidity" /\ call'.args[1] = result.a
        /\ result'.kind = "Ok")
            => result'.a + result'.b <= Arg]_vars

====
